---- MODULE Spec2Model ----
(***************************************************************************)
(* Model of the pg-flight-recorder benchmark analysis code:                *)
(*   src/benchmark/lib/compare.py                                          *)
(*   src/benchmark/lib/ddl_analyzer.py                                     *)
(*   src/benchmark2/lib/statistical_analysis.py                            *)
(*                                                                         *)
(* The functions are pure; one action models one call.  A call goes from   *)
(* pc = "idle" (or, for a DDLAnalyzer method, pc = "constructed") to       *)
(* pc = "done", recording the function name (fn), its arguments (args) and *)
(* what it returned or raised (out).  The analysis run of                  *)
(* statistical_analysis.py's main goes workload by workload: pending holds *)
(* the workloads still to analyze, workloads the results so far and report *)
(* the report file.                                                        *)
(*                                                                         *)
(* Python numbers are modelled as exact rationals [num, den] in lowest     *)
(* terms with den > 0; floating-point rounding is outside the model.       *)
(***************************************************************************)
EXTENDS Integers, Sequences, FiniteSets, TLC

VARIABLES pc, fn, args, out, operations, total_count,
          pending, workloads, report

vars == <<pc, fn, args, out, operations, total_count, pending, workloads, report>>

-----------------------------------------------------------------------------
(* Exact rational arithmetic standing for Python's numbers.                *)

Abs(x) == IF x < 0 THEN -x ELSE x

RECURSIVE GCD(_, _)
GCD(a, b) == IF b = 0 THEN a ELSE GCD(b, a % b)

Rat(n, d) ==
  LET s == IF d < 0 THEN -1 ELSE 1
      g == GCD(Abs(n), Abs(d))
  IN  [num |-> (s * n) \div g, den |-> (s * d) \div g]

I(n) == [num |-> n, den |-> 1]

RAdd(a, b) == Rat(a.num * b.den + b.num * a.den, a.den * b.den)
RSub(a, b) == Rat(a.num * b.den - b.num * a.den, a.den * b.den)
RMul(a, b) == Rat(a.num * b.num, a.den * b.den)
RDiv(a, b) == Rat(a.num * b.den, a.den * b.num)
RLt(a, b) == a.num * b.den < b.num * a.den
RLe(a, b) == a.num * b.den <= b.num * a.den
RGt(a, b) == RLt(b, a)
RGe(a, b) == RLe(b, a)
RAbs(a) == [num |-> Abs(a.num), den |-> a.den]
RIsZero(a) == a.num = 0

(* What a call leaves behind: a returned value or a raised exception.      *)
Return(v) == [raised |-> "None", value |-> v]
Raise(e) == [raised |-> e, value |-> "None"]

SeqsUpTo(S, n) == UNION {[1..k -> S] : k \in 0..n}

-----------------------------------------------------------------------------
(* compare.py: assess_impact                                               *)

(* Bound: impacts are drawn from the half-integers in [-MaxPct, MaxPct].   *)
MaxPct == 21

(* The grid, and the value 25 of the documented example (25, 1).            *)
PctGrid == {Rat(k, 2) : k \in (-2 * MaxPct)..(2 * MaxPct)} \cup {I(25)}

(* The throughput impact taken with its sign.                              *)
assess_impact_signed(throughput_impact, latency_p95_impact) ==
  LET t == throughput_impact
      l == RAbs(latency_p95_impact)
  IN  IF RLt(t, I(2)) /\ RLt(l, I(2)) THEN "NEGLIGIBLE"
      ELSE IF RLt(t, I(5)) /\ RLt(l, I(5)) THEN "LOW"
      ELSE IF RLt(t, I(10)) /\ RLt(l, I(10)) THEN "MODERATE"
      ELSE IF RLt(t, I(20)) /\ RLt(l, I(20)) THEN "HIGH"
      ELSE "SEVERE"

assess_impact_either(throughput_impact, latency_p95_impact) ==
  LET t == RAbs(throughput_impact)
      l == RAbs(latency_p95_impact)
  IN  IF RLt(t, I(2)) /\ RLt(l, I(2)) THEN "NEGLIGIBLE"
      ELSE IF RLt(t, I(5)) \/ RLt(l, I(5)) THEN "LOW"
      ELSE IF RLt(t, I(10)) \/ RLt(l, I(10)) THEN "MODERATE"
      ELSE IF RLt(t, I(20)) \/ RLt(l, I(20)) THEN "HIGH"
      ELSE "SEVERE"

(* The returned strings are modelled by their tier word (the source adds a *)
(* glyph and a parenthesised bound to each).                               *)
assess_impact(throughput_impact, latency_p95_impact) ==
  LET t == RAbs(throughput_impact)
      l == RAbs(latency_p95_impact)
  IN  IF RLt(t, I(2)) /\ RLt(l, I(2)) THEN "NEGLIGIBLE"
      ELSE IF RLt(t, I(5)) /\ RLt(l, I(5)) THEN "LOW"
      ELSE IF RLt(t, I(10)) /\ RLt(l, I(10)) THEN "MODERATE"
      ELSE IF RLt(t, I(20)) /\ RLt(l, I(20)) THEN "HIGH"
      ELSE "SEVERE"

AssessImpact ==
  /\ pc = "idle"
  /\ \E x \in PctGrid, y \in PctGrid :
       /\ fn' = "assess_impact"
       /\ args' = [throughput_impact |-> x, latency_p95_impact |-> y]
       /\ out' = Return(assess_impact(x, y))
  /\ pc' = "done"
  /\ UNCHANGED <<operations, total_count, pending, workloads, report>>

-----------------------------------------------------------------------------
(* statistical_analysis.py: assess_results                                 *)

(* Bounds of the grids assess_results is called on.                        *)
MaxTps == 4
MaxP99Pct == 16
MaxP99Ms == 6

(* Half-integers around the TPS thresholds -3 and -1.                      *)
TpsImpactGrid == {Rat(k, 2) : k \in (-2 * MaxTps)..(2 * MaxTps)}
(* Integers around the relative thresholds 5 and 15, and the example 20.   *)
P99PctGrid == {I(k) : k \in (-1)..MaxP99Pct} \cup {I(20)}
(* Half-integers around the absolute thresholds 2 and 5, and the example 10. *)
P99MsGrid == {Rat(k, 2) : k \in (-2)..(2 * MaxP99Ms)} \cup {I(10)}

tps_status_inclusive(tps_impact_pct) ==
  IF RLe(tps_impact_pct, I(-3)) THEN "CRITICAL"
  ELSE IF RLe(tps_impact_pct, I(-1)) THEN "WARNING"
  ELSE "OK"

tps_status(tps_impact_pct) ==
  IF RLt(tps_impact_pct, I(-3)) THEN "CRITICAL"
  ELSE IF RLt(tps_impact_pct, I(-1)) THEN "WARNING"
  ELSE "OK"

p99_status_either(p99_impact_pct, p99_impact_ms) ==
  IF RGt(p99_impact_pct, I(15)) \/ RGt(p99_impact_ms, I(5)) THEN "CRITICAL"
  ELSE IF RGt(p99_impact_pct, I(5)) \/ RGt(p99_impact_ms, I(2)) THEN "WARNING"
  ELSE "OK"

p99_status(p99_impact_pct, p99_impact_ms) ==
  IF RGt(p99_impact_pct, I(15)) /\ RGt(p99_impact_ms, I(5)) THEN "CRITICAL"
  ELSE IF RGt(p99_impact_pct, I(5)) /\ RGt(p99_impact_ms, I(2)) THEN "WARNING"
  ELSE "OK"

overall_warning_first(tps_st, p99_st) ==
  IF tps_st = "WARNING" \/ p99_st = "WARNING" THEN "WARNING"
  ELSE IF tps_st = "CRITICAL" \/ p99_st = "CRITICAL" THEN "FAIL"
  ELSE "PASS"

overall(tps_st, p99_st) ==
  IF tps_st = "CRITICAL" \/ p99_st = "CRITICAL" THEN "FAIL"
  ELSE IF tps_st = "WARNING" \/ p99_st = "WARNING" THEN "WARNING"
  ELSE "PASS"

assess_results(tps_impact_pct, p99_impact_pct, p99_impact_ms) ==
  LET t == tps_status(tps_impact_pct)
      p == p99_status(p99_impact_pct, p99_impact_ms)
  IN  [tps_status |-> t, p99_status |-> p, overall |-> overall(t, p)]

AssessResults ==
  /\ pc = "idle"
  /\ \E t \in TpsImpactGrid, p \in P99PctGrid, m \in P99MsGrid :
       /\ fn' = "assess_results"
       /\ args' = [tps_impact_pct |-> t, p99_impact_pct |-> p,
                   p99_impact_ms |-> m]
       /\ out' = Return(assess_results(t, p, m))
  /\ pc' = "done"
  /\ UNCHANGED <<operations, total_count, pending, workloads, report>>

-----------------------------------------------------------------------------
(* compare.py: calculate_impact, format_impact and the three comparisons   *)

(* Bounds of the values the comparisons are called on.                     *)
MaxTpsVal == 5
MaxLatVal == 2
MaxCounter == 2

calculate_impact_over_test(baseline, test) ==
  IF RIsZero(test) THEN I(0)
  ELSE RMul(RDiv(RSub(test, baseline), test), I(100))

calculate_impact(baseline, test) ==
  IF RIsZero(baseline) THEN I(0)
  ELSE RMul(RDiv(RSub(test, baseline), baseline), I(100))

(* q rounded to an integer, ties to even, as the format ".2f" rounds.      *)
RoundHalfEven(q) ==
  LET f == q.num \div q.den
      r == q.num - f * q.den
  IN  IF 2 * r < q.den THEN f
      ELSE IF 2 * r > q.den THEN f + 1
      ELSE IF f % 2 = 0 THEN f ELSE f + 1

(* The string sign + two-decimal number + "%" is modelled by its sign      *)
(* prefix and the number in hundredths.                                    *)
format_impact(impact) ==
  [sign |-> IF RGe(impact, I(0)) THEN "+" ELSE "",
   hundredths |-> RoundHalfEven(RMul(impact, I(100)))]

compare_throughput(baseline, test) ==
  LET baseline_tps == baseline.throughput.tps
      test_tps == test.throughput.tps
      impact == calculate_impact(baseline_tps, test_tps)
  IN  [baseline_tps |-> baseline_tps,
       test_tps |-> test_tps,
       impact_pct |-> impact,
       impact_formatted |-> format_impact(impact)]

LatencyMetrics == {"mean", "p50", "p95", "p99", "max"}

compare_latency(baseline, test) ==
  [metric \in LatencyMetrics |->
     LET baseline_val == baseline.latency_ms[metric]
         test_val == test.latency_ms[metric]
         impact == calculate_impact(baseline_val, test_val)
     IN  [baseline_ms |-> baseline_val,
          test_ms |-> test_val,
          impact_pct |-> impact,
          impact_formatted |-> format_impact(impact)]]

CounterKeys == {"xact_commit", "xact_rollback", "blks_read", "blks_hit",
                "tup_returned", "tup_fetched", "tup_inserted", "tup_updated"}

delta(start, end, key) == end[key] - start[key]

compare_database_stats(baseline, test) ==
  LET baseline_start == baseline.database_stats.start
      baseline_end == baseline.database_stats.end
      test_start == test.database_stats.start
      test_end == test.database_stats.end
  IN  [key \in CounterKeys |->
         LET baseline_delta == delta(baseline_start, baseline_end, key)
             test_delta == delta(test_start, test_end, key)
             impact == calculate_impact(I(baseline_delta), I(test_delta))
         IN  [baseline |-> baseline_delta,
              test |-> test_delta,
              impact_pct |-> impact,
              impact_formatted |-> format_impact(impact)]]

(* TPS values: 0..MaxTpsVal and the documented example pair 100, 110.      *)
TpsVals == {I(k) : k \in 0..MaxTpsVal} \cup {I(100), I(110)}

CompareThroughput ==
  /\ pc = "idle"
  /\ \E b \in TpsVals, t \in TpsVals :
       /\ fn' = "compare_throughput"
       /\ args' = [baseline |-> [throughput |-> [tps |-> b]],
                   test |-> [throughput |-> [tps |-> t]]]
       /\ out' = Return(compare_throughput(args'.baseline, args'.test))
  /\ pc' = "done"
  /\ UNCHANGED <<operations, total_count, pending, workloads, report>>

(* Latency summaries of a run: any mean, and a percentile ladder           *)
(* p50 <= p95 <= p99 <= max, in whole milliseconds up to MaxLatVal.        *)
LatencySummaries ==
  {[metric \in LatencyMetrics |-> I(f[metric])] :
     f \in {g \in [LatencyMetrics -> 0..MaxLatVal] :
              g["p50"] <= g["p95"] /\ g["p95"] <= g["p99"] /\ g["p99"] <= g["max"]}}

CompareLatency ==
  /\ pc = "idle"
  /\ \E b \in LatencySummaries, t \in LatencySummaries :
       /\ fn' = "compare_latency"
       /\ args' = [baseline |-> [latency_ms |-> b], test |-> [latency_ms |-> t]]
       /\ out' = Return(compare_latency(args'.baseline, args'.test))
  /\ pc' = "done"
  /\ UNCHANGED <<operations, total_count, pending, workloads, report>>

(* Counter snapshots: one key takes any four counter values (start and end *)
(* of the baseline and of the test run, a decreasing pair included); the   *)
(* other keys start at 0 and end at a common value.                        *)
Snapshot(key, v, others) ==
  [k \in CounterKeys |-> IF k = key THEN v ELSE others]

CompareDatabaseStats ==
  /\ pc = "idle"
  /\ \E key \in CounterKeys, bs \in 0..MaxCounter, be \in 0..MaxCounter,
        ts \in 0..MaxCounter, te \in 0..MaxCounter, o \in 0..MaxCounter :
       /\ fn' = "compare_database_stats"
       /\ args' = [baseline |-> [database_stats |->
                                   [start |-> Snapshot(key, bs, 0),
                                    end |-> Snapshot(key, be, o)]],
                   test |-> [database_stats |->
                               [start |-> Snapshot(key, ts, 0),
                                end |-> Snapshot(key, te, o)]]]
       /\ out' = Return(compare_database_stats(args'.baseline, args'.test))
  /\ pc' = "done"
  /\ UNCHANGED <<operations, total_count, pending, workloads, report>>

-----------------------------------------------------------------------------
(* Python's sorted() and the statistics module, as the analysis uses them  *)

(* sorted(s): the ascending rearrangement of s, built value by value: the *)
(* least remaining value, as many times as it occurs in s, then the rest.  *)
RECURSIVE SortedRuns(_, _)
SortedRuns(s, rng) ==
  IF rng = {} THEN <<>>
  ELSE LET v == CHOOSE x \in rng : \A y \in rng : RLe(x, y)
           k == Cardinality({j \in 1..Len(s) : s[j] = v})
       IN  [i \in 1..k |-> v] \o SortedRuns(s, rng \ {v})

sorted(s) == SortedRuns(s, {s[j] : j \in 1..Len(s)})

(* The sum of s[lo..hi], by halves.                                        *)
RECURSIVE SumRange(_, _, _)
SumRange(s, lo, hi) ==
  IF lo > hi THEN I(0)
  ELSE IF lo = hi THEN s[lo]
  ELSE LET mid == (lo + hi) \div 2
       IN  RAdd(SumRange(s, lo, mid), SumRange(s, mid + 1, hi))

SumSeq(s) == SumRange(s, 1, Len(s))

(* statistics.mean: called on non-empty data only.                         *)
mean(data) == RDiv(SumSeq(data), I(Len(data)))

(* Sample variance (n - 1 denominator), called with at least two values:   *)
(* sum((x - mean)^2) / (n - 1), computed in the equal form                 *)
(* (n * sum(x^2) - sum(x)^2) / (n * (n - 1)).                              *)
variance(data) ==
  LET n == Len(data)
      sx == SumSeq(data)
      sxx == SumSeq([i \in 1..n |-> RMul(data[i], data[i])])
  IN  RDiv(RSub(RMul(I(n), sxx), RMul(sx, sx)), I(n * (n - 1)))

(* A number a + c * sqrt(b) with a, c, b rational and b >= 0: square roots *)
(* are kept symbolic.  c and b are 0 when the root part vanishes.          *)
Surd(a, c, b) ==
  IF c.num = 0 \/ b.num = 0 THEN [a |-> a, c |-> I(0), b |-> I(0)]
  ELSE [a |-> a, c |-> c, b |-> b]

Num(q) == Surd(q, I(0), I(0))

(* statistics.stdev: the square root of the sample variance.               *)
stdev(data) == Surd(I(0), I(1), variance(data))

-----------------------------------------------------------------------------
(* statistical_analysis.py: compute_percentiles, compute_confidence_interval *)

(* Bounds of the sample lists: values 0..MaxSample, any order up to MaxLen *)
(* samples, and lists of two runs of equal values up to                    *)
(* MaxRun + RunStep * MaxBlocks samples long.                              *)
MaxSample == 2
MaxLen == 3
MaxRun == 12
RunStep == 11
MaxBlocks == 9

SampleVals == {I(k) : k \in 0..MaxSample}

Rep(v, k) == [i \in 1..k |-> v]

SampleLists ==
  SeqsUpTo(SampleVals, MaxLen)
    \cup {Rep(a, i) \o Rep(b, RunStep * j) :
            a \in SampleVals, b \in SampleVals, i \in 0..MaxRun, j \in 0..MaxBlocks}

PctIndex_rounded_up(n, p) == (n * p + 99) \div 100

(* int(n * 0.50), int(n * 0.95), int(n * 0.99): the float product          *)
(* truncated; it equals the integer quotient n * p div 100 for every       *)
(* n up to 200000.                                                         *)
PctIndex(n, p) == (n * p) \div 100

(* Python's list indexing sorted_values[i] for i >= 0 (0-based).           *)
InRange(s, i) == 0 <= i /\ i < Len(s)

(* The body of compute_percentiles for a non-empty list.                   *)
percentiles_of(values) ==
  LET sorted_values == sorted(values)
      n == Len(sorted_values)
  IN  IF \E p \in {50, 95, 99} : ~InRange(sorted_values, PctIndex(n, p))
      THEN Raise("IndexError")
      ELSE Return([mean |-> mean(values),
                   stddev |-> IF n > 1 THEN stdev(values) ELSE Num(I(0)),
                   p50 |-> sorted_values[PctIndex(n, 50) + 1],
                   p95 |-> sorted_values[PctIndex(n, 95) + 1],
                   p99 |-> sorted_values[PctIndex(n, 99) + 1],
                   max |-> sorted_values[n]])

(* Without the guard on the empty list statistics.mean raises.             *)
compute_percentiles_unguarded(values) ==
  IF values = <<>> THEN Raise("StatisticsError") ELSE percentiles_of(values)

compute_percentiles(values) ==
  IF values = <<>>
  THEN Return([p50 |-> I(0), p95 |-> I(0), p99 |-> I(0), max |-> I(0),
               mean |-> I(0), stddev |-> Num(I(0))])
  ELSE percentiles_of(values)

(* The critical value 2.0 at every sample count.                           *)
compute_confidence_interval_fixed_t(values, confidence) ==
  IF Len(values) < 2
  THEN LET m == IF values # <<>> THEN values[1] ELSE I(0)
       IN  <<Num(m), Num(m), Num(I(0))>>
  ELSE LET n == Len(values)
           m == mean(values)
           stderr_sq == RDiv(variance(values), I(n))
       IN  <<Surd(m, I(-2), stderr_sq),
             Surd(m, I(2), stderr_sq),
             Surd(I(0), I(2), stderr_sq)>>

(* The result is the tuple (low, high, margin).  confidence is not read.   *)
compute_confidence_interval(values, confidence) ==
  IF Len(values) < 2
  THEN LET m == IF values # <<>> THEN values[1] ELSE I(0)
       IN  <<Num(m), Num(m), Num(I(0))>>
  ELSE LET n == Len(values)
           m == mean(values)
           stderr_sq == RDiv(variance(values), I(n))
           t_critical == IF n > 30 THEN Rat(196, 100) ELSE I(2)
       IN  <<Surd(m, RSub(I(0), t_critical), stderr_sq),
             Surd(m, t_critical, stderr_sq),
             Surd(I(0), t_critical, stderr_sq)>>

ComputePercentiles ==
  /\ pc = "idle"
  /\ \E v \in SampleLists :
       /\ fn' = "compute_percentiles"
       /\ args' = [values |-> v]
       /\ out' = compute_percentiles(v)
  /\ pc' = "done"
  /\ UNCHANGED <<operations, total_count, pending, workloads, report>>

ConfidenceLevels == {Rat(95, 100), Rat(99, 100)}

ComputeConfidenceInterval ==
  /\ pc = "idle"
  /\ \E v \in SampleLists, c \in ConfidenceLevels :
       /\ fn' = "compute_confidence_interval"
       /\ args' = [values |-> v, confidence |-> c]
       /\ out' = Return(compute_confidence_interval(v, c))
  /\ pc' = "done"
  /\ UNCHANGED <<operations, total_count, pending, workloads, report>>

-----------------------------------------------------------------------------
(* statistical_analysis.py: analyze_workload                               *)

(* Bounds: the number of runs per mode and of latency samples per mode.    *)
MaxWorkloadRuns == 1
MaxWorkloadLat == 2

(* TPS of a run and latency samples (ms) that reach a zero baseline, a     *)
(* drop and a rise.                                                        *)
WorkloadTps == {I(0), I(96), I(100)}
WorkloadLat == {I(0), I(10), I(20)}

(* A RunStats record; analyze_workload reads its tps field only.           *)
RunStatsLists == SeqsUpTo([tps : WorkloadTps], MaxWorkloadRuns)
(* Latency samples are drawn in ascending order: analyze_workload reads    *)
(* them only through compute_percentiles, which sorts them and takes       *)
(* their mean and deviation.                                               *)
LatencyLists ==
  {l \in SeqsUpTo(WorkloadLat, MaxWorkloadLat) :
     \A i \in 1..(Len(l) - 1) : RLe(l[i], l[i + 1])}

(* compute_percentiles(latencies) if latencies else {}: the empty mapping  *)
(* is the function with the empty domain.                                  *)
lat_stats(latencies) ==
  IF latencies = <<>> THEN Return(<<>>) ELSE compute_percentiles(latencies)

(* stats.get(metric, 0)                                                    *)
stat_get(stats, metric) ==
  IF metric \in DOMAIN stats THEN stats[metric] ELSE I(0)

latency_impact_of(baseline_val, enabled_val) ==
  IF RGt(baseline_val, I(0))
  THEN [baseline_ms |-> baseline_val,
        enabled_ms |-> enabled_val,
        impact_pct |-> RMul(RDiv(RSub(enabled_val, baseline_val), baseline_val), I(100)),
        impact_ms |-> RSub(enabled_val, baseline_val)]
  ELSE [baseline_ms |-> baseline_val,
        enabled_ms |-> enabled_val,
        impact_pct |-> I(0),
        impact_ms |-> I(0)]

tps_summary(tps, tps_mean) ==
  LET ci == compute_confidence_interval(tps, Rat(95, 100))
  IN  [mean |-> tps_mean,
       stddev |-> IF Len(tps) > 1 THEN stdev(tps) ELSE Num(I(0)),
       ci_low |-> ci[1],
       ci_high |-> ci[2],
       samples |-> Len(tps)]

analyze_workload(data) ==
  LET baseline_runs == data.baseline_runs
      enabled_runs == data.enabled_runs
      baseline_latencies == data.baseline_latencies
      enabled_latencies == data.enabled_latencies
  IN  IF baseline_runs = <<>> \/ enabled_runs = <<>>
      THEN Return([error |-> "Insufficient data"])
      ELSE
        LET baseline_tps == [i \in 1..Len(baseline_runs) |-> baseline_runs[i].tps]
            enabled_tps == [i \in 1..Len(enabled_runs) |-> enabled_runs[i].tps]
            baseline_tps_mean == mean(baseline_tps)
            enabled_tps_mean == mean(enabled_tps)
        IN  IF RIsZero(baseline_tps_mean)
            THEN Raise("ZeroDivisionError")
            ELSE
              LET tps_impact_pct ==
                    RMul(RDiv(RSub(enabled_tps_mean, baseline_tps_mean),
                              baseline_tps_mean), I(100))
                  baseline_lat_stats == lat_stats(baseline_latencies)
                  enabled_lat_stats == lat_stats(enabled_latencies)
                  latency_impact ==
                    [metric \in LatencyMetrics |->
                       latency_impact_of(stat_get(baseline_lat_stats.value, metric),
                                         stat_get(enabled_lat_stats.value, metric))]
                  assessment ==
                    assess_results(tps_impact_pct,
                                   latency_impact["p99"].impact_pct,
                                   latency_impact["p99"].impact_ms)
              IN  IF baseline_lat_stats.raised # "None" THEN baseline_lat_stats
                  ELSE IF enabled_lat_stats.raised # "None" THEN enabled_lat_stats
                  ELSE
                    Return([tps |-> [baseline |-> tps_summary(baseline_tps, baseline_tps_mean),
                                     enabled |-> tps_summary(enabled_tps, enabled_tps_mean),
                                     impact_pct |-> tps_impact_pct],
                            latency |-> latency_impact,
                            assessment |-> assessment])

AnalyzeWorkload ==
  /\ pc = "idle"
  /\ \E br \in RunStatsLists, er \in RunStatsLists,
        bl \in LatencyLists, el \in LatencyLists :
       /\ fn' = "analyze_workload"
       /\ args' = [data |-> [baseline_runs |-> br, enabled_runs |-> er,
                             baseline_latencies |-> bl, enabled_latencies |-> el]]
       /\ out' = analyze_workload(args'.data)
  /\ pc' = "done"
  /\ UNCHANGED <<operations, total_count, pending, workloads, report>>

-----------------------------------------------------------------------------
(* statistical_analysis.py: parse_pgbench_log                              *)

(* Bound: the number of lines of a transaction log.                        *)
MaxLines == 3

(* Lines are sequences of characters.  The log lines drawn: two well-      *)
(* formed ones (the second with surrounding blanks, a doubled blank and a  *)
(* fifth field), a line of two fields, an empty line, and lines whose      *)
(* third field is "x9", "2.5" and "-40".                                   *)
LogLines ==
  {<<"0"," ","1"," ","1","5","0","0"," ","7">>,
   <<" ","3"," "," ","2"," ","2","5","0"," ","0"," ","1"," ">>,
   <<"0"," ","1">>,
   <<>>,
   <<"0"," ","1"," ","x","9"," ","7">>,
   <<"0"," ","1"," ","2",".","5">>,
   <<"0"," ","1"," ","-","4","0">>}

Digits == <<"0","1","2","3","4","5","6","7","8","9">>

IsDigit(c) == \E d \in 1..10 : Digits[d] = c

DigitValue(c) == (CHOOSE d \in 1..10 : Digits[d] = c) - 1

(* line.strip().split(): the maximal runs of non-blank characters, where   *)
(* cur is the run being read.                                              *)
RECURSIVE SplitFrom(_, _, _)
SplitFrom(chars, i, cur) ==
  IF i > Len(chars) THEN (IF cur = <<>> THEN <<>> ELSE <<cur>>)
  ELSE IF chars[i] = " "
       THEN (IF cur = <<>> THEN <<>> ELSE <<cur>>) \o SplitFrom(chars, i + 1, <<>>)
       ELSE SplitFrom(chars, i + 1, Append(cur, chars[i]))

split(chars) == SplitFrom(chars, 1, <<>>)

(* int(text) accepts an optional sign followed by digits, and raises       *)
(* ValueError on anything else.                                            *)
IsIntLiteral(text) ==
  LET body == IF text # <<>> /\ text[1] \in {"-", "+"} THEN Tail(text) ELSE text
  IN  body # <<>> /\ \A k \in 1..Len(body) : IsDigit(body[k])

RECURSIVE DigitsValue(_, _)
DigitsValue(body, n) ==
  IF n = 0 THEN 0 ELSE 10 * DigitsValue(body, n - 1) + DigitValue(body[n])

int(text) ==
  IF text[1] = "-" THEN -DigitsValue(Tail(text), Len(text) - 1)
  ELSE IF text[1] = "+" THEN DigitsValue(Tail(text), Len(text) - 1)
  ELSE DigitsValue(text, Len(text))

(* The loop over the lines: a line of at least 3 fields whose third field  *)
(* is an integer appends latency_us / 1000.0; any other line is passed     *)
(* over.                                                                   *)
RECURSIVE latencies_of(_)
latencies_of(lines) ==
  IF lines = <<>> THEN <<>>
  ELSE LET parts == split(Head(lines))
       IN  (IF Len(parts) >= 3 /\ IsIntLiteral(parts[3])
            THEN <<Rat(int(parts[3]), 1000)>>
            ELSE <<>>) \o latencies_of(Tail(lines))

(* The file at filepath is absent (FileNotFoundError: no latencies) or has *)
(* lines.                                                                  *)
parse_pgbench_log(file) ==
  IF ~file.exists THEN <<>> ELSE latencies_of(file.lines)

LogFiles ==
  {[exists |-> FALSE, lines |-> <<>>]}
    \cup {[exists |-> TRUE, lines |-> l] : l \in SeqsUpTo(LogLines, MaxLines)}

ParsePgbenchLog ==
  /\ pc = "idle"
  /\ \E file \in LogFiles :
       /\ fn' = "parse_pgbench_log"
       /\ args' = [file |-> file]
       /\ out' = Return(parse_pgbench_log(file))
  /\ pc' = "done"
  /\ UNCHANGED <<operations, total_count, pending, workloads, report>>

-----------------------------------------------------------------------------
(* statistical_analysis.py: main, the analysis run over the workloads      *)

(* Bound: the number of workload directories of a results directory.       *)
MaxWorkloads == 2

(* What load_workload_results returns for one workload directory: the runs *)
(* and latency samples of both modes.  (main has checked that the          *)
(* directory exists, so the mapping has its four keys and is truthy.)      *)
MainRunLists == {<<>>} \cup {<<[tps |-> t]>> : t \in WorkloadTps}

MainLatencies == {<< <<>>, <<>> >>, << <<I(10)>>, <<I(20)>> >>}

MainData ==
  {[baseline_runs |-> br, enabled_runs |-> er,
    baseline_latencies |-> l[1], enabled_latencies |-> l[2]] :
     br \in MainRunLists, er \in MainRunLists, l \in MainLatencies}

(* main up to the loop: the oltp_ directories of the results directory, in *)
(* listing order; a workload is named by its position in the listing.      *)
MainStart ==
  /\ pc = "idle"
  /\ \E n \in 1..MaxWorkloads : \E d \in [1..n -> MainData] :
       /\ args' = [entries |-> d]
       /\ pending' = [i \in 1..n |-> [entry |-> i, data |-> d[i]]]
  /\ fn' = "main"
  /\ workloads' = <<>>
  /\ out' = Return("None")
  /\ pc' = "main_loop"
  /\ UNCHANGED <<operations, total_count, report>>

(* One iteration: workloads[entry] = analyze_workload(data).  An exception *)
(* of analyze_workload is caught nowhere and ends the process.             *)
MainAnalyze ==
  /\ pc = "main_loop"
  /\ pending # <<>>
  /\ LET entry == Head(pending).entry
         r == analyze_workload(Head(pending).data)
     IN  IF r.raised # "None"
         THEN /\ out' = r
              /\ pc' = "done"
              /\ UNCHANGED <<pending, workloads>>
         ELSE /\ workloads' = [k \in DOMAIN workloads \cup {entry} |->
                                 IF k = entry THEN r.value ELSE workloads[k]]
              /\ pending' = Tail(pending)
              /\ UNCHANGED <<out, pc>>
  /\ UNCHANGED <<fn, args, operations, total_count, report>>

(* After the loop: generate_report writes the results.                     *)
MainReport ==
  /\ pc = "main_loop"
  /\ pending = <<>>
  /\ report' = [written |-> TRUE, content |-> [workloads |-> workloads]]
  /\ pc' = "done"
  /\ UNCHANGED <<fn, args, out, operations, total_count, pending, workloads>>

-----------------------------------------------------------------------------
(* ddl_analyzer.py: DDLOperation and DDLAnalyzer                           *)

(* Bounds: the number of operations of an analyzer built from arbitrary    *)
(* mappings, and the lengths of the two runs of a long list (operations    *)
(* blocked by the recorder, then unblocked ones).                          *)
MaxOps == 2
MaxFrRun == 5
MaxCleanRun == 99

(* Python strings are sequences of characters; an optional string is None  *)
(* or a string.                                                            *)
NoneStr == [is_none |-> TRUE, chars |-> <<>>]
Str(chars) == [is_none |-> FALSE, chars |-> chars]

UpperCase == <<"A","B","C","D","E","F","G","H","I","J","K","L","M",
               "N","O","P","Q","R","S","T","U","V","W","X","Y","Z">>
LowerCase == <<"a","b","c","d","e","f","g","h","i","j","k","l","m",
               "n","o","p","q","r","s","t","u","v","w","x","y","z">>

(* str.lower()                                                             *)
lower(chars) ==
  [i \in 1..Len(chars) |->
     IF \E k \in 1..26 : UpperCase[k] = chars[i]
     THEN LowerCase[CHOOSE k \in 1..26 : UpperCase[k] = chars[i]]
     ELSE chars[i]]

(* sub in chars                                                            *)
Contains(sub, chars) ==
  \E k \in 0..(Len(chars) - Len(sub)) : SubSeq(chars, k + 1, k + Len(sub)) = sub

FlightRecorderToken ==
  <<"f","l","i","g","h","t","_","r","e","c","o","r","d","e","r">>

(* The fields of the DDLOperation dataclass without and with a default.    *)
RequiredFields ==
  {"operation_id", "ddl_type", "start_time", "end_time", "duration_ms", "was_blocked"}

OptionalFields == {"blocked_by", "lock_wait_ms"}

(* The generated __init__ raises TypeError when a mapping lacks a required *)
(* field or has a key that is no field.                                    *)
AcceptsMapping(op) ==
  /\ RequiredFields \subseteq DOMAIN op
  /\ DOMAIN op \subseteq RequiredFields \cup OptionalFields

(* The DDLOperation dataclass built from one mapping by keyword; blocked_by *)
(* and lock_wait_ms default to None.                                       *)
DDLOperation(op) ==
  [operation_id |-> op.operation_id,
   ddl_type |-> op.ddl_type,
   start_time |-> op.start_time,
   end_time |-> op.end_time,
   duration_ms |-> op.duration_ms,
   was_blocked |-> op.was_blocked,
   blocked_by |-> IF "blocked_by" \in DOMAIN op THEN op.blocked_by ELSE NoneStr,
   lock_wait_ms |-> IF "lock_wait_ms" \in DOMAIN op THEN op.lock_wait_ms ELSE "None"]

(* was_blocked not consulted.                                              *)
blocked_by_flight_recorder_any(op) ==
  IF op.blocked_by.is_none \/ op.blocked_by.chars = <<>>
  THEN FALSE
  ELSE Contains(FlightRecorderToken, lower(op.blocked_by.chars))

blocked_by_flight_recorder(op) ==
  IF ~op.was_blocked \/ op.blocked_by.is_none \/ op.blocked_by.chars = <<>>
  THEN FALSE
  ELSE Contains(FlightRecorderToken, lower(op.blocked_by.chars))

(* statistics.median of non-empty data                                     *)
median(data) ==
  LET d == sorted(data)
      n == Len(d)
  IN  IF n % 2 = 1 THEN d[n \div 2 + 1]
      ELSE RDiv(RAdd(d[n \div 2], d[n \div 2 + 1]), I(2))

(* statistics.quantiles(data, n=n), default method "exclusive", of sorted  *)
(* data with at least two points: the n - 1 cut points.                    *)
quantiles(data, n) ==
  LET ld == Len(data)
      m == ld + 1
  IN  [i \in 1..(n - 1) |->
         LET j0 == (i * m) \div n
             j == IF j0 < 1 THEN 1 ELSE IF j0 > ld - 1 THEN ld - 1 ELSE j0
             dlt == i * m - j * n
         IN  RDiv(RAdd(RMul(data[j], I(n - dlt)), RMul(data[j + 1], I(dlt))), I(n))]

percentile(values, p) ==
  IF values = <<>> THEN I(0)
  ELSE IF Len(values) > 1 THEN quantiles(sorted(values), 100)[p]
  ELSE values[1]

duration_stats(ops) ==
  IF ops = <<>>
  THEN [count |-> 0, min |-> I(0), max |-> I(0), mean |-> I(0),
        median |-> I(0), p95 |-> I(0), p99 |-> I(0), stddev |-> Num(I(0))]
  ELSE LET durations == [i \in 1..Len(ops) |-> ops[i].duration_ms]
           s == sorted(durations)
       IN  [count |-> Len(durations),
            min |-> s[1],
            max |-> s[Len(s)],
            mean |-> mean(durations),
            median |-> median(durations),
            p95 |-> percentile(durations, 95),
            p99 |-> percentile(durations, 99),
            stddev |-> IF Len(durations) > 1 THEN stdev(durations) ELSE Num(I(0))]

(* the condition of [op for op in self.operations if op.was_blocked]       *)
WasBlocked(op) == op.was_blocked

(* len(part) / total * 100 if total > 0 else 0                             *)
pct_of(part, total) ==
  IF total > 0 THEN RMul(Rat(part, total), I(100)) ELSE I(0)

blocking_analysis(ops, total) ==
  LET blocked == SelectSeq(ops, WasBlocked)
      fr_blocked == SelectSeq(ops, blocked_by_flight_recorder)
  IN  [total_blocked |-> Len(blocked),
       total_blocked_pct |-> pct_of(Len(blocked), total),
       fr_blocked |-> Len(fr_blocked),
       fr_blocked_pct |-> pct_of(Len(fr_blocked), total),
       blocked_stats |-> duration_stats(blocked),
       fr_blocked_stats |-> duration_stats(fr_blocked)]

(* The operations are grouped by ddl_type; a type occurs in the result iff *)
(* an operation has it.  blocked_duration_stats is None without blocked    *)
(* operations.                                                             *)
ddl_type_breakdown(ops) ==
  [t \in {ops[i].ddl_type : i \in 1..Len(ops)} |->
     LET OfType(op) == op.ddl_type = t
         data_operations == SelectSeq(ops, OfType)
         data_blocked == SelectSeq(data_operations, WasBlocked)
         data_fr_blocked == SelectSeq(data_operations, blocked_by_flight_recorder)
     IN  [count |-> Len(data_operations),
          blocked_count |-> Len(data_blocked),
          blocked_pct |-> pct_of(Len(data_blocked), Len(data_operations)),
          fr_blocked_count |-> Len(data_fr_blocked),
          fr_blocked_pct |-> pct_of(Len(data_fr_blocked), Len(data_operations)),
          duration_stats |-> duration_stats(data_operations),
          blocked_duration_stats |->
            IF data_blocked # <<>> THEN duration_stats(data_blocked) ELSE "None"]]

(* collections_per_day rounded up instead of down.                         *)
collision_probability_rounded_up(ops, total, interval_seconds, operations_per_hour) ==
  LET fr_blocked_pct == pct_of(Len(SelectSeq(ops, blocked_by_flight_recorder)), total)
      collections_per_day == (86400 + interval_seconds - 1) \div interval_seconds
      expected_collisions_per_day ==
        RMul(RMul(I(collections_per_day), RDiv(fr_blocked_pct, I(100))),
             I(operations_per_hour * 24))
  IN  [interval_seconds |-> interval_seconds,
       collections_per_day |-> collections_per_day,
       operations_per_hour |-> operations_per_hour,
       collision_probability_pct |-> fr_blocked_pct,
       expected_collisions_per_day |-> expected_collisions_per_day,
       expected_collisions_per_hour |-> RDiv(expected_collisions_per_day, I(24))]

collision_probability(ops, total, interval_seconds, operations_per_hour) ==
  LET fr_blocked_pct == pct_of(Len(SelectSeq(ops, blocked_by_flight_recorder)), total)
      collections_per_day == 86400 \div interval_seconds
      expected_collisions_per_day ==
        RMul(RMul(I(collections_per_day), RDiv(fr_blocked_pct, I(100))),
             I(operations_per_hour * 24))
  IN  [interval_seconds |-> interval_seconds,
       collections_per_day |-> collections_per_day,
       operations_per_hour |-> operations_per_hour,
       collision_probability_pct |-> fr_blocked_pct,
       expected_collisions_per_day |-> expected_collisions_per_day,
       expected_collisions_per_hour |-> RDiv(expected_collisions_per_day, I(24))]

(* The qualifier appended from an average delay of exactly 100 ms on.      *)
risk_assessment_delay_inclusive(ops, total, interval_seconds) ==
  LET fr_blocked_pct == pct_of(Len(SelectSeq(ops, blocked_by_flight_recorder)), total)
      fr_blocked == SelectSeq(ops, blocked_by_flight_recorder)
      avg_delay == IF fr_blocked # <<>>
                   THEN mean([i \in 1..Len(fr_blocked) |-> fr_blocked[i].duration_ms])
                   ELSE I(0)
      risk == IF RLt(fr_blocked_pct, I(1)) THEN "LOW"
              ELSE IF RLt(fr_blocked_pct, I(3)) THEN "MODERATE"
              ELSE IF RLt(fr_blocked_pct, I(5)) THEN "MODERATE-HIGH"
              ELSE "HIGH"
      recommendation ==
        IF RLt(fr_blocked_pct, I(1))
        THEN "Safe for production use with high DDL workloads"
        ELSE IF RLt(fr_blocked_pct, I(3))
        THEN "Safe for typical workloads. Monitor if >50 DDL ops/hour"
        ELSE IF RLt(fr_blocked_pct, I(5))
        THEN "Consider emergency mode (300s) during DDL-heavy periods"
        ELSE "Use emergency mode (300s) or schedule DDL during low-traffic windows"
  IN  IF RGe(avg_delay, I(100))
      THEN <<risk \o " (HIGH DELAY)",
             <<recommendation, [average_delay_tenths |-> RoundHalfEven(RMul(avg_delay, I(10)))]>> >>
      ELSE <<risk, <<recommendation>> >>

(* The result is the tuple (risk, recommendation).  The recommendation is  *)
(* a sequence of lines; the appended line, which carries the average delay *)
(* in the format ".1f", is modelled by that number in tenths.              *)
(* interval_seconds is not read.                                           *)
risk_assessment(ops, total, interval_seconds) ==
  LET fr_blocked_pct == pct_of(Len(SelectSeq(ops, blocked_by_flight_recorder)), total)
      fr_blocked == SelectSeq(ops, blocked_by_flight_recorder)
      avg_delay == IF fr_blocked # <<>>
                   THEN mean([i \in 1..Len(fr_blocked) |-> fr_blocked[i].duration_ms])
                   ELSE I(0)
      risk == IF RLt(fr_blocked_pct, I(1)) THEN "LOW"
              ELSE IF RLt(fr_blocked_pct, I(3)) THEN "MODERATE"
              ELSE IF RLt(fr_blocked_pct, I(5)) THEN "MODERATE-HIGH"
              ELSE "HIGH"
      recommendation ==
        IF RLt(fr_blocked_pct, I(1))
        THEN "Safe for production use with high DDL workloads"
        ELSE IF RLt(fr_blocked_pct, I(3))
        THEN "Safe for typical workloads. Monitor if >50 DDL ops/hour"
        ELSE IF RLt(fr_blocked_pct, I(5))
        THEN "Consider emergency mode (300s) during DDL-heavy periods"
        ELSE "Use emergency mode (300s) or schedule DDL during low-traffic windows"
  IN  IF RGt(avg_delay, I(100))
      THEN <<risk \o " (HIGH DELAY)",
             <<recommendation, [average_delay_tenths |-> RoundHalfEven(RMul(avg_delay, I(10)))]>> >>
      ELSE <<risk, <<recommendation>> >>

(* The mappings an analyzer is built from.                                 *)
DDLTypes == {"ALTER", "VACUUM"}
Durations == {I(10), I(20), I(150)}
Blockings ==
  {[was_blocked |-> FALSE, blocked_by |-> NoneStr],
   [was_blocked |-> TRUE,
    blocked_by |-> Str(<<"a","u","t","o","v","a","c","u","u","m">>)],
   [was_blocked |-> TRUE,
    blocked_by |-> Str(<<"p","g","_","F","l","i","g","h","t","_",
                         "R","e","c","o","r","d","e","r">>)]}

OpMapping(id, t, d, b) ==
  [operation_id |-> id, ddl_type |-> t, start_time |-> "", end_time |-> "",
   duration_ms |-> d, was_blocked |-> b.was_blocked,
   blocked_by |-> b.blocked_by, lock_wait_ms |-> "None"]

(* Durations of the recorder-blocked operations of a long list.            *)
RunDelays == {I(100), I(150)}

(* A long list: i operations blocked by the recorder, each of duration d,  *)
(* then j unblocked operations.                                            *)
OpRun(d, i, j) ==
  [k \in 1..(i + j) |->
     IF k <= i
     THEN OpMapping(k, "ALTER", d,
                    [was_blocked |-> TRUE,
                     blocked_by |-> Str(<<"p","g","_","f","l","i","g","h","t","_",
                                          "r","e","c","o","r","d","e","r">>)])
     ELSE OpMapping(k, "VACUUM", I(10),
                    [was_blocked |-> FALSE, blocked_by |-> NoneStr])]

(* Mappings as a recording may hold them: a complete one without the       *)
(* optional fields, one without duration_ms, one with a key that is no     *)
(* field, an unblocked one that names the recorder, a blocked one that     *)
(* names it in capitals, and a blocked one with an empty blocked_by.       *)
CompleteMapping ==
  [operation_id |-> 0, ddl_type |-> "ALTER", start_time |-> "", end_time |-> "",
   duration_ms |-> I(20), was_blocked |-> FALSE]

RecordedMappings ==
  {CompleteMapping,
   [operation_id |-> 0, ddl_type |-> "VACUUM", start_time |-> "", end_time |-> "",
    was_blocked |-> FALSE],
   [operation_id |-> 0, ddl_type |-> "ALTER", start_time |-> "", end_time |-> "",
    duration_ms |-> I(10), was_blocked |-> FALSE, note |-> ""],
   [operation_id |-> 0, ddl_type |-> "VACUUM", start_time |-> "", end_time |-> "",
    duration_ms |-> I(10), was_blocked |-> FALSE,
    blocked_by |-> Str(<<"f","l","i","g","h","t","_","r","e","c","o","r","d","e","r">>)],
   [operation_id |-> 0, ddl_type |-> "VACUUM", start_time |-> "", end_time |-> "",
    duration_ms |-> I(150), was_blocked |-> TRUE,
    blocked_by |-> Str(<<"F","L","I","G","H","T","_","R","E","C","O","R","D","E","R","!">>)],
   [operation_id |-> 0, ddl_type |-> "ALTER", start_time |-> "", end_time |-> "",
    duration_ms |-> I(20), was_blocked |-> TRUE, blocked_by |-> Str(<<>>)]}

OpMappingLists ==
  UNION {{[i \in 1..k |-> OpMapping(i, t[i], d[i], b[i])] :
            t \in [1..k -> DDLTypes], d \in [1..k -> Durations],
            b \in [1..k -> Blockings]} : k \in 0..MaxOps}
    \cup {OpRun(d, i, j) : d \in RunDelays, i \in 0..MaxFrRun, j \in 0..MaxCleanRun}
    \cup (SeqsUpTo(RecordedMappings, MaxOps + 1) \ SeqsUpTo({CompleteMapping}, MaxOps + 1))

DDLAnalyzerInit ==
  /\ pc = "idle"
  /\ \E ops \in OpMappingLists :
       /\ fn' = "DDLAnalyzer.__init__"
       /\ args' = [operations |-> ops]
       /\ IF \A i \in 1..Len(ops) : AcceptsMapping(ops[i])
          THEN /\ operations' = [i \in 1..Len(ops) |-> DDLOperation(ops[i])]
               /\ total_count' = Len(ops)
               /\ out' = Return("None")
               /\ pc' = "constructed"
          ELSE /\ out' = Raise("TypeError")
               /\ pc' = "done"
               /\ UNCHANGED <<operations, total_count>>
  /\ UNCHANGED <<pending, workloads, report>>

DurationStats ==
  /\ pc = "constructed"
  /\ fn' = "duration_stats"
  /\ args' = <<>>
  /\ out' = Return(duration_stats(operations))
  /\ pc' = "done"
  /\ UNCHANGED <<operations, total_count, pending, workloads, report>>

BlockingAnalysis ==
  /\ pc = "constructed"
  /\ fn' = "blocking_analysis"
  /\ args' = <<>>
  /\ out' = Return(blocking_analysis(operations, total_count))
  /\ pc' = "done"
  /\ UNCHANGED <<operations, total_count, pending, workloads, report>>

(* The default interval, the emergency-mode interval and one that does not *)
(* divide the 86400 seconds of a day.                                      *)
Intervals == {180, 300, 250}
OpsPerHour == {50, 100}

CollisionProbability ==
  /\ pc = "constructed"
  /\ \E interval_seconds \in Intervals, operations_per_hour \in OpsPerHour :
       /\ fn' = "collision_probability"
       /\ args' = [interval_seconds |-> interval_seconds,
                   operations_per_hour |-> operations_per_hour]
       /\ out' = Return(collision_probability(operations, total_count,
                                              interval_seconds, operations_per_hour))
  /\ pc' = "done"
  /\ UNCHANGED <<operations, total_count, pending, workloads, report>>

DdlTypeBreakdown ==
  /\ pc = "constructed"
  /\ fn' = "ddl_type_breakdown"
  /\ args' = <<>>
  /\ out' = Return(ddl_type_breakdown(operations))
  /\ pc' = "done"
  /\ UNCHANGED <<operations, total_count, pending, workloads, report>>

RiskAssessment ==
  /\ pc = "constructed"
  /\ \E interval_seconds \in Intervals :
       /\ fn' = "risk_assessment"
       /\ args' = [interval_seconds |-> interval_seconds]
       /\ out' = Return(risk_assessment(operations, total_count, interval_seconds))
  /\ pc' = "done"
  /\ UNCHANGED <<operations, total_count, pending, workloads, report>>

-----------------------------------------------------------------------------
Init ==
  /\ pc = "idle"
  /\ fn = "None"
  /\ args = <<>>
  /\ out = Return("None")
  /\ operations = <<>>
  /\ total_count = 0
  /\ pending = <<>>
  /\ workloads = <<>>
  /\ report = [written |-> FALSE, content |-> <<>>]

NextImpact == AssessImpact

SpecImpact == Init /\ [][NextImpact]_vars

NextCompare == CompareThroughput \/ CompareLatency \/ CompareDatabaseStats

SpecCompare == Init /\ [][NextCompare]_vars

NextAssess == AssessResults

NextWorkload == AnalyzeWorkload

NextMain == MainStart \/ MainAnalyze \/ MainReport

SpecMain == Init /\ [][NextMain]_vars

SpecWorkload == Init /\ [][NextWorkload]_vars

NextDDL ==
  \/ DDLAnalyzerInit
  \/ DurationStats
  \/ BlockingAnalysis
  \/ DdlTypeBreakdown
  \/ CollisionProbability
  \/ RiskAssessment

SpecDDL == Init /\ [][NextDDL]_vars

NextPercentiles == ComputePercentiles \/ ComputeConfidenceInterval

SpecPercentiles == Init /\ [][NextPercentiles]_vars

(* The ingestion of input records by both programs.                       *)
NextIngest == ParsePgbenchLog \/ NextDDL

SpecIngest == Init /\ [][NextIngest]_vars

(* The summary statistics of both programs.                                *)
NextStats == NextPercentiles \/ NextDDL

SpecStats == Init /\ [][NextStats]_vars

Next ==
  \/ NextImpact
  \/ NextCompare
  \/ NextAssess
  \/ NextWorkload
  \/ NextMain
  \/ ParsePgbenchLog
  \/ NextStats

Spec == Init /\ [][Next]_vars

SpecAssess == Init /\ [][NextAssess]_vars

-----------------------------------------------------------------------------
(* C1: assess_impact returns the worst of the two tiers that each signal   *)
(* alone requires: NEGLIGIBLE below 2, LOW in [2,5), MODERATE in [5,10),   *)
(* HIGH in [10,20), SEVERE from 20 on, taken on absolute values; a value   *)
(* exactly on a threshold belongs to the next tier.                        *)

TierRank(x) ==
  LET a == RAbs(x)
  IN  IF RGe(a, I(20)) THEN 4
      ELSE IF RGe(a, I(10)) THEN 3
      ELSE IF RGe(a, I(5)) THEN 2
      ELSE IF RGe(a, I(2)) THEN 1
      ELSE 0

TierName(r) ==
  CASE r = 0 -> "NEGLIGIBLE"
    [] r = 1 -> "LOW"
    [] r = 2 -> "MODERATE"
    [] r = 3 -> "HIGH"
    [] r = 4 -> "SEVERE"

MaxOf(a, b) == IF a >= b THEN a ELSE b

C1_WorstTier ==
  fn = "assess_impact" =>
    /\ out.raised = "None"
    /\ out.value = TierName(MaxOf(TierRank(args.throughput_impact),
                                  TierRank(args.latency_p95_impact)))
    /\ (args.throughput_impact = I(1) /\ args.latency_p95_impact = I(1))
         => out.value = "NEGLIGIBLE"
    /\ (args.throughput_impact = I(3) /\ args.latency_p95_impact = I(3))
         => out.value = "LOW"
    /\ (args.throughput_impact = I(15) /\ args.latency_p95_impact = I(15))
         => out.value = "HIGH"
    /\ (args.throughput_impact = I(25) /\ args.latency_p95_impact = I(1))
         => out.value = "SEVERE"

(* The worst-of-two case: one signal alone (exactly on the 20 threshold)   *)
(* forces SEVERE while the other is negligible.                            *)
C1_Witness ==
  /\ fn = "assess_impact"
  /\ args.throughput_impact = I(20)
  /\ args.latency_p95_impact = I(1)
  /\ out.value = "SEVERE"

-----------------------------------------------------------------------------
(* C2: p99_status is CRITICAL exactly when p99_impact_pct > 15 and         *)
(* p99_impact_ms > 5; WARNING exactly when that fails and p99_impact_pct   *)
(* > 5 and p99_impact_ms > 2; OK otherwise.  A relative swing of any size  *)
(* with p99_impact_ms <= 2 is OK.  The status is a function of the two     *)
(* latency inputs alone (tps_impact_pct does not occur in its definition). *)
C2_P99Gate ==
  fn = "assess_results" =>
    LET pct == args.p99_impact_pct
        ms == args.p99_impact_ms
        crit == pct.num > 15 * pct.den /\ ms.num > 5 * ms.den
        warn == ~crit /\ pct.num > 5 * pct.den /\ ms.num > 2 * ms.den
    IN  /\ out.raised = "None"
        /\ (out.value.p99_status = "CRITICAL") <=> crit
        /\ (out.value.p99_status = "WARNING") <=> warn
        /\ (out.value.p99_status = "OK") <=> (~crit /\ ~warn)
        /\ ms.num <= 2 * ms.den => out.value.p99_status = "OK"

(* The documented example: tps -0.5, p99 +20 %, +1 ms is OK on latency     *)
(* although the relative swing exceeds 15 %.                               *)
C2_Witness ==
  /\ fn = "assess_results"
  /\ args.tps_impact_pct = Rat(-1, 2)
  /\ args.p99_impact_pct = I(20)
  /\ args.p99_impact_ms = I(1)
  /\ out.value.p99_status = "OK"

(* C3: tps_status is CRITICAL if tps_impact_pct < -3, WARNING if           *)
(* -3 <= tps_impact_pct < -1, OK otherwise (exactly -1 and every           *)
(* non-negative value included), whatever the latency inputs are.          *)
C3_TpsStatus ==
  fn = "assess_results" =>
    LET t == args.tps_impact_pct
        crit == t.num < (-3) * t.den
        warn == (-3) * t.den <= t.num /\ t.num < (-1) * t.den
    IN  /\ out.raised = "None"
        /\ crit => out.value.tps_status = "CRITICAL"
        /\ warn => out.value.tps_status = "WARNING"
        /\ (~crit /\ ~warn) => out.value.tps_status = "OK"
        /\ (t = I(-1) \/ t.num >= 0) => out.value.tps_status = "OK"

(* Exactly -3 is WARNING (not CRITICAL) while latency is CRITICAL.         *)
C3_Witness ==
  /\ fn = "assess_results"
  /\ args.tps_impact_pct = I(-3)
  /\ out.value.tps_status = "WARNING"
  /\ out.value.p99_status = "CRITICAL"

(* C4: overall is the worst of tps_status and p99_status under             *)
(* OK < WARNING < CRITICAL, reported as PASS / WARNING / FAIL.             *)
StatusRank(st) ==
  CASE st = "OK" -> 0
    [] st = "WARNING" -> 1
    [] st = "CRITICAL" -> 2

C4_OverallWorst ==
  fn = "assess_results" =>
    LET r == MaxOf(StatusRank(out.value.tps_status),
                   StatusRank(out.value.p99_status))
    IN  /\ out.raised = "None"
        /\ out.value.overall = (CASE r = 0 -> "PASS"
                                  [] r = 1 -> "WARNING"
                                  [] r = 2 -> "FAIL")
        /\ (out.value.overall = "FAIL") <=>
             (out.value.tps_status = "CRITICAL" \/ out.value.p99_status = "CRITICAL")
        /\ (out.value.overall = "PASS") <=>
             (out.value.tps_status = "OK" /\ out.value.p99_status = "OK")

(* One status WARNING, the other CRITICAL: the worse one decides.          *)
C4_Witness ==
  /\ fn = "assess_results"
  /\ out.value.tps_status = "WARNING"
  /\ out.value.p99_status = "CRITICAL"
  /\ out.value.overall = "FAIL"

-----------------------------------------------------------------------------
(* C5: calculate_impact returns (test - baseline) / baseline * 100 when    *)
(* baseline is not 0 and 0 when baseline is 0, whatever test is, and the   *)
(* throughput, every latency metric and every counter delta get exactly    *)
(* this value as impact_pct.  Stated without division: impact * baseline   *)
(* = (test - baseline) * 100.                                              *)
IsImpactOf(impact, baseline, test) ==
  IF baseline.num = 0 THEN impact = I(0)
  ELSE RMul(impact, baseline) = RMul(RSub(test, baseline), I(100))

C5_ImpactFormula ==
  /\ fn = "compare_throughput" =>
       /\ out.raised = "None"
       /\ IsImpactOf(out.value.impact_pct, args.baseline.throughput.tps,
                     args.test.throughput.tps)
       /\ (args.baseline.throughput.tps = I(100)
             /\ args.test.throughput.tps = I(110))
            => out.value.impact_pct = I(10)
  /\ fn = "compare_latency" =>
       /\ out.raised = "None"
       /\ \A m \in LatencyMetrics :
            IsImpactOf(out.value[m].impact_pct, args.baseline.latency_ms[m],
                       args.test.latency_ms[m])
  /\ fn = "compare_database_stats" =>
       /\ out.raised = "None"
       /\ \A k \in CounterKeys :
            IsImpactOf(out.value[k].impact_pct,
                       I(args.baseline.database_stats.end[k]
                           - args.baseline.database_stats.start[k]),
                       I(args.test.database_stats.end[k]
                           - args.test.database_stats.start[k]))

(* A zero baseline with a non-zero test value gives impact 0.              *)
C5_Witness ==
  /\ fn = "compare_throughput"
  /\ args.baseline.throughput.tps = I(0)
  /\ args.test.throughput.tps = I(110)
  /\ out.value.impact_pct = I(0)

(* C7: when end[key] - start[key] is negative in the baseline or the test  *)
(* snapshot pair, compare_database_stats fails with an inconsistent-       *)
(* counter error; a negative delta is never returned as a metric value.    *)
HasNegativeDelta(a) ==
  \E k \in CounterKeys :
    \/ a.baseline.database_stats.end[k] < a.baseline.database_stats.start[k]
    \/ a.test.database_stats.end[k] < a.test.database_stats.start[k]

C7_NegativeDeltaRejected ==
  (fn = "compare_database_stats" /\ HasNegativeDelta(args)) =>
    out.raised = "InconsistentCounterError"

-----------------------------------------------------------------------------
(* C8: for every non-empty list, compute_percentiles reads each percentile *)
(* at an index int(n * p / 100) inside [0, n - 1] of the ascending-sorted  *)
(* list (no index error), and min(values) <= p50 <= p95 <= p99 <= max.     *)
IsMinOf(x, s) ==
  /\ \E i \in 1..Len(s) : s[i] = x
  /\ \A i \in 1..Len(s) : RLe(x, s[i])

IsMaxOf(x, s) ==
  /\ \E i \in 1..Len(s) : s[i] = x
  /\ \A i \in 1..Len(s) : RLe(s[i], x)

C8_PercentileLadder ==
  (fn = "compute_percentiles" /\ args.values # <<>>) =>
    LET n == Len(args.values)
    IN  /\ out.raised = "None"
        /\ \A p \in {50, 95, 99} : PctIndex(n, p) \in 0..(n - 1)
        /\ \E lo \in {args.values[i] : i \in 1..n} :
             /\ IsMinOf(lo, args.values)
             /\ RLe(lo, out.value.p50)
        /\ RLe(out.value.p50, out.value.p95)
        /\ RLe(out.value.p95, out.value.p99)
        /\ RLe(out.value.p99, out.value.max)
        /\ IsMaxOf(out.value.max, args.values)

(* An unsorted list long enough for the three indices to differ from each  *)
(* other and from the last one, with p50 below p95.                        *)
C8_Witness ==
  /\ fn = "compute_percentiles"
  /\ Len(args.values) >= 100
  /\ RLt(args.values[Len(args.values)], args.values[1])
  /\ out.raised = "None"
  /\ RLt(out.value.p50, out.value.p95)

-----------------------------------------------------------------------------
(* C6: analyze_workload, given at least one baseline run and one enabled   *)
(* run, never fails when a baseline value is 0: a mean baseline TPS of 0   *)
(* gives tps impact_pct 0, and a baseline latency metric of 0 gives        *)
(* impact_pct 0 and impact_ms 0 for that metric.                           *)
TpsTotal(runs) == SumSeq([i \in 1..Len(runs) |-> runs[i].tps])

C6_ZeroBaselineNoFailure ==
  (/\ fn = "analyze_workload"
   /\ args.data.baseline_runs # <<>>
   /\ args.data.enabled_runs # <<>>) =>
    /\ out.raised = "None"
    /\ TpsTotal(args.data.baseline_runs) = I(0)
         => out.value.tps.impact_pct = I(0)
    /\ \A m \in LatencyMetrics :
         out.value.latency[m].baseline_ms = I(0)
           => /\ out.value.latency[m].impact_pct = I(0)
              /\ out.value.latency[m].impact_ms = I(0)

-----------------------------------------------------------------------------
(* C9: for every non-empty list of DDL operations (lists of 1 or 2         *)
(* operations included), duration_stats returns min <= median <= max and   *)
(* min <= p95 <= p99 <= max.                                               *)
C9_DurationLadder ==
  (fn = "duration_stats" /\ operations # <<>>) =>
    /\ out.raised = "None"
    /\ RLe(out.value.min, out.value.median)
    /\ RLe(out.value.median, out.value.max)
    /\ RLe(out.value.min, out.value.p95)
    /\ RLe(out.value.p95, out.value.p99)
    /\ RLe(out.value.p99, out.value.max)

-----------------------------------------------------------------------------
(* C10: an empty sample set is a valid input: compute_percentiles([]) and  *)
(* duration_stats of no operations return a record whose every field is 0, *)
(* compute_confidence_interval([]) returns (0, 0, 0), and an analyzer      *)
(* built from zero operations reports 0 for every blocked percentage and   *)
(* for the expected collisions; none of them raises.                       *)
SurdIsZero(x) == x.a = I(0) /\ x.c = I(0)

AllZeroStats(st) ==
  /\ st.count = 0
  /\ \A f \in {"min", "max", "mean", "median", "p95", "p99"} : st[f] = I(0)
  /\ SurdIsZero(st.stddev)

C10_EmptyIsValid ==
  /\ (fn = "compute_percentiles" /\ args.values = <<>>) =>
       /\ out.raised = "None"
       /\ \A f \in {"p50", "p95", "p99", "max", "mean"} : out.value[f] = I(0)
       /\ SurdIsZero(out.value.stddev)
  /\ (fn = "compute_confidence_interval" /\ args.values = <<>>) =>
       /\ out.raised = "None"
       /\ \A i \in 1..3 : SurdIsZero(out.value[i])
  /\ (fn = "duration_stats" /\ total_count = 0) =>
       /\ out.raised = "None"
       /\ AllZeroStats(out.value)
  /\ (fn = "blocking_analysis" /\ total_count = 0) =>
       /\ out.raised = "None"
       /\ out.value.total_blocked = 0
       /\ out.value.fr_blocked = 0
       /\ out.value.total_blocked_pct = I(0)
       /\ out.value.fr_blocked_pct = I(0)
       /\ AllZeroStats(out.value.blocked_stats)
       /\ AllZeroStats(out.value.fr_blocked_stats)
  /\ (fn = "collision_probability" /\ total_count = 0) =>
       /\ out.raised = "None"
       /\ out.value.collision_probability_pct = I(0)
       /\ out.value.expected_collisions_per_day = I(0)
       /\ out.value.expected_collisions_per_hour = I(0)

(* An analyzer built from zero operations has answered blocking_analysis.  *)
C10_Witness ==
  /\ fn = "blocking_analysis"
  /\ operations = <<>>
  /\ total_count = 0
  /\ out.raised = "None"
  /\ out.value.fr_blocked_pct = I(0)

-----------------------------------------------------------------------------
(* C11: compute_confidence_interval returns (low, high, margin) with       *)
(* low = mean - margin and high = mean + margin.  For fewer than 2 samples *)
(* margin is 0 and low = high = the single sample (0 when empty); for n    *)
(* >= 2 margin = critical * stddev / sqrt(n), critical being 1.96 when     *)
(* n > 30 and 2.0 otherwise; so margin >= 0 and low <= mean <= high.  The  *)
(* result is determined by the samples, whatever confidence is passed.     *)
(* With stddev / sqrt(n) = sqrt(variance / n), a number a + c * sqrt(b)    *)
(* is the margin iff a = 0, c = critical and b = variance / n.             *)
C11_ConfidenceInterval ==
  fn = "compute_confidence_interval" =>
    LET values == args.values
        n == Len(values)
        low == out.value[1]
        high == out.value[2]
        margin == out.value[3]
    IN  /\ out.raised = "None"
        /\ margin.a = I(0) /\ RGe(margin.c, I(0)) /\ RGe(margin.b, I(0))
        /\ low.a = high.a
        /\ low.b = margin.b /\ high.b = margin.b
        /\ high.c = margin.c /\ low.c = RSub(I(0), margin.c)
        /\ n = 0 => (low.a = I(0) /\ SurdIsZero(margin))
        /\ n = 1 => (low.a = values[1] /\ SurdIsZero(margin))
        /\ n >= 2 =>
             LET critical == IF n > 30 THEN Rat(196, 100) ELSE I(2)
                 sd == stdev(values)
             IN  /\ low.a = mean(values)
                 /\ margin = Surd(I(0), RMul(critical, sd.c), RDiv(sd.b, I(n)))

(* More than 30 samples that are not all equal: the critical value 1.96    *)
(* multiplies a non-zero standard error.                                   *)
C11_Witness ==
  /\ fn = "compute_confidence_interval"
  /\ Len(args.values) > 30
  /\ out.raised = "None"
  /\ out.value[3].c = Rat(196, 100)
  /\ RGt(out.value[3].b, I(0))

-----------------------------------------------------------------------------
(* C12: with r the measured percentage of operations blocked by the        *)
(* recorder, collision_probability returns collections_per_day = 86400 div *)
(* interval_seconds (integer division), expected_collisions_per_day =      *)
(* collections_per_day * (r / 100) * operations_per_hour * 24 and          *)
(* expected_collisions_per_hour = expected_collisions_per_day / 24; r = 2, *)
(* interval 180 and 100 operations per hour give 480 and 23040.            *)
FrBlockedCount == Cardinality({i \in 1..Len(operations) :
                                 blocked_by_flight_recorder(operations[i])})

MeasuredRate ==
  IF total_count > 0 THEN Rat(100 * FrBlockedCount, total_count) ELSE I(0)

C12_CollisionFormula ==
  fn = "collision_probability" =>
    LET cpd == 86400 \div args.interval_seconds
        perday == Rat(cpd * MeasuredRate.num * args.operations_per_hour * 24,
                      100 * MeasuredRate.den)
    IN  /\ out.raised = "None"
        /\ out.value.collections_per_day = cpd
        /\ cpd * args.interval_seconds <= 86400
        /\ 86400 < (cpd + 1) * args.interval_seconds
        /\ out.value.expected_collisions_per_day = perday
        /\ RMul(out.value.expected_collisions_per_hour, I(24)) = perday
        /\ (MeasuredRate = I(2) /\ args.interval_seconds = 180
              /\ args.operations_per_hour = 100)
             => /\ out.value.collections_per_day = 480
                /\ out.value.expected_collisions_per_day = I(23040)

(* A measured rate of 2 percent at an interval that does not divide a day: *)
(* 345 collections per day, 16560 expected collisions.                     *)
C12_Witness ==
  /\ fn = "collision_probability"
  /\ MeasuredRate = I(2)
  /\ args.interval_seconds = 250
  /\ args.operations_per_hour = 100
  /\ out.value.collections_per_day = 345
  /\ out.value.expected_collisions_per_day = I(16560)

-----------------------------------------------------------------------------
(* C13: risk_assessment returns base tier LOW if the recorder-blocked      *)
(* percentage is < 1, MODERATE in [1, 3), MODERATE-HIGH in [3, 5), HIGH    *)
(* from 5 on; the high-delay qualifier is appended to the tier and to the  *)
(* recommendation exactly when the average duration of the recorder-       *)
(* blocked operations is > 100 ms, and it leaves the base tier as it is.   *)
(* The result is determined by the operations, whatever interval_seconds   *)
(* is passed.                                                              *)
BaseTier ==
  LET r == MeasuredRate
  IN  IF r.num < r.den THEN "LOW"
      ELSE IF r.num < 3 * r.den THEN "MODERATE"
      ELSE IF r.num < 5 * r.den THEN "MODERATE-HIGH"
      ELSE "HIGH"

FrDelayTotal ==
  LET fr == SelectSeq(operations, blocked_by_flight_recorder)
  IN  SumSeq([i \in 1..Len(fr) |-> fr[i].duration_ms])

HighDelay == RGt(FrDelayTotal, I(100 * FrBlockedCount))

C13_RiskTier ==
  fn = "risk_assessment" =>
    LET risk == out.value[1]
        recommendation == out.value[2]
    IN  /\ out.raised = "None"
        /\ HighDelay => (risk = BaseTier \o " (HIGH DELAY)" /\ Len(recommendation) = 2)
        /\ ~HighDelay => (risk = BaseTier /\ Len(recommendation) = 1)
        /\ recommendation[1] =
             (CASE BaseTier = "LOW" ->
                     "Safe for production use with high DDL workloads"
                [] BaseTier = "MODERATE" ->
                     "Safe for typical workloads. Monitor if >50 DDL ops/hour"
                [] BaseTier = "MODERATE-HIGH" ->
                     "Consider emergency mode (300s) during DDL-heavy periods"
                [] BaseTier = "HIGH" ->
                     "Use emergency mode (300s) or schedule DDL during low-traffic windows")

(* Exactly 3 percent blocked by the recorder with an average delay of      *)
(* exactly 100 ms: MODERATE-HIGH without the qualifier.                    *)
C13_Witness ==
  /\ fn = "risk_assessment"
  /\ MeasuredRate = I(3)
  /\ FrDelayTotal = I(100 * FrBlockedCount)
  /\ out.value[1] = "MODERATE-HIGH"

-----------------------------------------------------------------------------
(* C14: in an analysis run over any sequence of workloads the run is never *)
(* aborted by a workload's data, and when it has ended the report is       *)
(* written and holds a result for every workload: the marker               *)
(* {'error': 'Insufficient data'} for a workload without a baseline run or *)
(* without an enabled run, the full result (tps, latency, assessment) for  *)
(* every other workload.                                                   *)
Insufficient(d) == d.baseline_runs = <<>> \/ d.enabled_runs = <<>>

C14_RunCompletes ==
  fn = "main" =>
    /\ out.raised = "None"
    /\ pc = "done" =>
         /\ report.written
         /\ \A i \in DOMAIN args.entries :
              /\ i \in DOMAIN report.content.workloads
              /\ IF Insufficient(args.entries[i])
                 THEN report.content.workloads[i] = [error |-> "Insufficient data"]
                 ELSE DOMAIN report.content.workloads[i] =
                        {"tps", "latency", "assessment"}

-----------------------------------------------------------------------------
(* C15: a malformed record is skipped alone.  parse_pgbench_log returns    *)
(* the latencies of the well-formed lines (at least 3 fields, the third an *)
(* integer), in order, whatever malformed lines stand between them; and    *)
(* constructing a DDLAnalyzer from mappings of which some lack a required  *)
(* field succeeds and holds the operations of the well-formed mappings, in *)
(* order.                                                                  *)
WellFormedLine(line) ==
  LET parts == split(line)
  IN  Len(parts) >= 3 /\ IsIntLiteral(parts[3])

LineLatency(line) == Rat(int(split(line)[3]), 1000)

WellFormedLines(lines) == SelectSeq(lines, WellFormedLine)

WellFormedMappings(ops) == SelectSeq(ops, AcceptsMapping)

C15_MalformedSkipped ==
  /\ (fn = "parse_pgbench_log" /\ args.file.exists) =>
       LET good == WellFormedLines(args.file.lines)
       IN  /\ out.raised = "None"
           /\ out.value = [i \in 1..Len(good) |-> LineLatency(good[i])]
  /\ fn = "DDLAnalyzer.__init__" =>
       LET good == WellFormedMappings(args.operations)
       IN  /\ out.raised = "None"
           /\ operations = [i \in 1..Len(good) |-> DDLOperation(good[i])]
           /\ total_count = Len(good)

-----------------------------------------------------------------------------
(* C16: an operation counts as blocked by the recorder only if was_blocked *)
(* is true and blocked_by is present and contains 'flight_recorder' in any *)
(* letter case.  Hence blocking_analysis returns 0 <= fr_blocked <=        *)
(* total_blocked <= total_count and fr_blocked_pct <= total_blocked_pct <= *)
(* 100, and in ddl_type_breakdown every type has fr_blocked_count <=       *)
(* blocked_count <= count, while count, blocked_count and fr_blocked_count *)
(* summed over the types are the numbers of all, of the blocked and of the *)
(* recorder-blocked operations.                                            *)
SameLetter(c, d) ==
  \/ c = d
  \/ \E k \in 1..26 : {c, d} = {UpperCase[k], LowerCase[k]}

NamesRecorder(chars) ==
  \E k \in 0..(Len(chars) - Len(FlightRecorderToken)) :
    \A j \in 1..Len(FlightRecorderToken) :
      SameLetter(chars[k + j], FlightRecorderToken[j])

BlockedCount == Cardinality({i \in 1..Len(operations) : operations[i].was_blocked})

RECURSIVE SumOver(_, _, _)
SumOver(f, keys, field) ==
  IF keys = {} THEN 0
  ELSE LET k == CHOOSE x \in keys : TRUE
       IN  f[k][field] + SumOver(f, keys \ {k}, field)

C16_RecorderBlockedCounts ==
  /\ pc \in {"constructed", "done"} =>
       \A i \in 1..Len(operations) :
         blocked_by_flight_recorder(operations[i]) =>
           /\ operations[i].was_blocked
           /\ ~operations[i].blocked_by.is_none
           /\ NamesRecorder(operations[i].blocked_by.chars)
  /\ fn = "blocking_analysis" =>
       /\ out.raised = "None"
       /\ 0 <= out.value.fr_blocked
       /\ out.value.fr_blocked <= out.value.total_blocked
       /\ out.value.total_blocked <= total_count
       /\ RLe(out.value.fr_blocked_pct, out.value.total_blocked_pct)
       /\ RLe(out.value.total_blocked_pct, I(100))
  /\ fn = "ddl_type_breakdown" =>
       /\ out.raised = "None"
       /\ \A t \in DOMAIN out.value :
            /\ out.value[t].fr_blocked_count <= out.value[t].blocked_count
            /\ out.value[t].blocked_count <= out.value[t].count
       /\ SumOver(out.value, DOMAIN out.value, "count") = total_count
       /\ SumOver(out.value, DOMAIN out.value, "blocked_count") = BlockedCount
       /\ SumOver(out.value, DOMAIN out.value, "fr_blocked_count") = FrBlockedCount

(* Two types; one operation is unblocked although its blocked_by names the *)
(* recorder, another is blocked by the recorder named in capitals.         *)
C16_Witness ==
  /\ fn = "ddl_type_breakdown"
  /\ Cardinality(DOMAIN out.value) = 2
  /\ \E i \in 1..Len(operations) :
       /\ ~operations[i].was_blocked
       /\ ~operations[i].blocked_by.is_none
       /\ NamesRecorder(operations[i].blocked_by.chars)
  /\ FrBlockedCount = 1
  /\ BlockedCount = 2

-----------------------------------------------------------------------------
(* C17: in analyze_workload with at least one baseline and one enabled     *)
(* run, whenever the baseline or the enabled latency samples are empty,    *)
(* the result is a full result (no insufficient-data marker) in which the  *)
(* missing side's metrics are 0, every latency metric's impact_pct and     *)
(* impact_ms is <= 0 and p99_status is OK, so that overall is PASS,        *)
(* WARNING or FAIL as tps_status is OK, WARNING or CRITICAL.               *)
C17_EmptyLatencySide ==
  (/\ fn = "analyze_workload"
   /\ args.data.baseline_runs # <<>>
   /\ args.data.enabled_runs # <<>>
   /\ (args.data.baseline_latencies = <<>> \/ args.data.enabled_latencies = <<>>)) =>
    /\ out.raised = "None"
    /\ DOMAIN out.value = {"tps", "latency", "assessment"}
    /\ \A m \in LatencyMetrics :
         /\ args.data.baseline_latencies = <<>> => out.value.latency[m].baseline_ms = I(0)
         /\ args.data.enabled_latencies = <<>> => out.value.latency[m].enabled_ms = I(0)
         /\ RLe(out.value.latency[m].impact_pct, I(0))
         /\ RLe(out.value.latency[m].impact_ms, I(0))
    /\ out.value.assessment.p99_status = "OK"
    /\ out.value.assessment.overall =
         (CASE out.value.assessment.tps_status = "OK" -> "PASS"
            [] out.value.assessment.tps_status = "WARNING" -> "WARNING"
            [] out.value.assessment.tps_status = "CRITICAL" -> "FAIL")

-----------------------------------------------------------------------------
(* C18: assess_impact depends only on the magnitudes of its two arguments  *)
(* and treats them alike: assess_impact(x, y) = assess_impact(-x, y) =     *)
(* assess_impact(x, -y) = assess_impact(y, x); a gain of a given size is   *)
(* placed in the tier of a loss of that size.                              *)
Neg(q) == RSub(I(0), q)

C18_SignAndOrderBlind ==
  fn = "assess_impact" =>
    LET x == args.throughput_impact
        y == args.latency_p95_impact
    IN  /\ out.raised = "None"
        /\ out.value = assess_impact(Neg(x), y)
        /\ out.value = assess_impact(x, Neg(y))
        /\ out.value = assess_impact(y, x)
        /\ out.value = TierName(MaxOf(TierRank(Neg(x)), TierRank(Neg(y))))

(* A throughput change of -15 beside a latency change of +1 is HIGH, as    *)
(* +15 beside +1 is.                                                       *)
C18_Witness ==
  /\ fn = "assess_impact"
  /\ args.throughput_impact = I(-15)
  /\ args.latency_p95_impact = I(1)
  /\ out.value = "HIGH"
  /\ assess_impact(I(15), I(1)) = "HIGH"

====
